---- MODULE Spec2Model ----
(***************************************************************************)
(* A model of blockchain.py: the Blockchain ledger (chain, pending         *)
(* transactions, peer registry), its proof of work and chain validation,   *)
(* the Flask handlers (mine, new_transaction, full_chain, register_nodes,  *)
(* consensus) and the P2PNode message handlers.                            *)
(*                                                                         *)
(* Every node runs its handlers on threads that share the Blockchain       *)
(* object without locks.  A handler is cut into steps at the points where  *)
(* another thread can observably run in between: around the proof-of-work  *)
(* search, between the statements of new_block, between an append to the   *)
(* pending list and the broadcast that follows it, between the statements  *)
(* that read the chain and its length for a response and the serialising   *)
(* of that response, and around each HTTP fetch.                           *)
(*                                                                         *)
(* SHA-256 is modelled in two ways.  Blockchain.hash is collision free:    *)
(* the digest of a block is its canonical serialization.  valid_proof is   *)
(* a table of the guess strings whose real digest starts with '0000'.      *)
(***************************************************************************)
EXTENDS Integers, Sequences, FiniteSets, TLC

----------------------------------------------------------------------------
(* Bounds of the model *)

\* mining requests are accepted while the local chain is shorter than this
MaxChainLen == 2

\* transactions are recorded while the pending buffer is shorter than this
MaxPending == 1

\* P2P messages sent and not yet received, over the whole network
MaxInFlight == 1

\* handler calls in progress at a time, over the whole network
MaxThreads == 2

\* /mine requests are accepted while fewer than this many blocks were forged
MaxClock == 2

----------------------------------------------------------------------------
(* The network: every node is started as `blockchain.py <port> <port+1000>` *)
(* on 127.0.0.1, so a node is named by its Flask address.                   *)

Node == {"127.0.0.1:5000", "127.0.0.1:5001"}

\* the /mine request threads modelled per node
MineThread == {1, 2}

\* node_identifier: one uuid per process
node_identifier(n) == IF n = "127.0.0.1:5000" THEN "a" ELSE "b"

\* the transactions clients post
UserTx == {[sender |-> "x", recipient |-> "y", amount |-> 5]}

\* time.time() as new_block reads it (line 54): the readings of one node
\* increase, no reading is below an earlier one of any node, and two nodes
\* can read the same value
Timestamp == 1..MaxClock

----------------------------------------------------------------------------
(* Blockchain.hash, proof_of_work, valid_proof *)

difficulty == "0000"

genesis_block ==
  [index |-> 1, timestamp |-> 0, transactions |-> <<>>, proof |-> 100,
   previous_hash |-> <<"1">>]

\* json.dumps(block.copy(), sort_keys=True): every key the dictionary has,
\* in sorted order, each with its value.  A block has the five keys new_block
\* gives it, and a 'hash' key if whoever sent it added one.
block_string(block) ==
  IF "hash" \in DOMAIN block
    THEN <<<<"hash", block.hash>>, <<"index", block.index>>,
           <<"previous_hash", block.previous_hash>>,
           <<"proof", block.proof>>, <<"timestamp", block.timestamp>>,
           <<"transactions", block.transactions>>>>
    ELSE <<<<"index", block.index>>,
           <<"previous_hash", block.previous_hash>>,
           <<"proof", block.proof>>, <<"timestamp", block.timestamp>>,
           <<"transactions", block.transactions>>>>

\* the SHA-256 digest of block_string is modelled by block_string itself, so
\* two blocks have one digest exactly when they serialize alike
hash(block) == block_string(block)

\* Every string f'{last_proof}{proof}', for last_proof among the proofs of the
\* model and proof < 200000, whose SHA-256 hex digest starts with '0000'.
Sha256ZeroPrefix ==
  { "10035293", "10088145", "100127094", "100146888", "100189045",
    "100196296", "100198688",
    "3529335089", "3529350265",
    "35089119678",
    "119678146502",
    "14650243538", "146502159718",
    "4353885724", "43538101266",
    "8814524936", "8814547445", "88145183562",
    "5026546987", "5026591761" }

\* the proofs of the accepted guesses above: the only candidates below 200000
\* that the search loop of proof_of_work can stop at
ProofCandidate ==
  { 35293, 88145, 127094, 146888, 189045, 196296, 198688, 35089, 50265,
    119678, 146502, 43538, 159718, 85724, 101266, 24936, 47445, 183562,
    46987, 91761 }

valid_proof(last_proof, proof) ==
  (ToString(last_proof) \o ToString(proof)) \in Sha256ZeroPrefix

\* proof = 0; while valid_proof(last_proof, proof) is False: proof += 1
proof_of_work(last_proof) ==
  CHOOSE proof \in ProofCandidate :
    /\ valid_proof(last_proof, proof)
    /\ \A q \in ProofCandidate : q < proof => ~valid_proof(last_proof, q)

----------------------------------------------------------------------------
(* Blockchain.valid_chain, called on `self` whose chain is `own` *)

\* valid_chain without the previous_hash comparison of lines 169-171
valid_chain_unlinked(own, chain) ==
  /\ chain # <<>>
  /\ (Len(own) > 0 => hash(chain[1]) = hash(own[1]))
  /\ \A i \in 2..Len(chain) :
       valid_proof(chain[i - 1].proof, chain[i].proof)

valid_chain(own, chain) ==
  /\ chain # <<>>
  /\ (Len(own) > 0 => hash(chain[1]) = hash(own[1]))
  /\ \A i \in 2..Len(chain) :
       /\ chain[i].previous_hash = hash(chain[i - 1])
       /\ valid_proof(chain[i - 1].proof, chain[i].proof)

----------------------------------------------------------------------------
(* State *)

VARIABLES
  chain,                 \* Blockchain.chain of each node
  current_transactions,  \* Blockchain.current_transactions of each node
  nodes,                 \* Blockchain.nodes of each node
  mine_pc,               \* where each /mine request thread stands
  mine_last,             \* mine: last_block
  mine_block,            \* new_block: block
  mine_alias,            \* block['transactions'] is still the pending list
  clock,                 \* per node: the last value time.time() gave to new_block
  rsv_pc,                \* where the resolve_conflicts call of a node stands
  rsv_max_length,        \* resolve_conflicts: max_length
  rsv_new_chain,         \* resolve_conflicts: new_chain (<<>> is None)
  rsv_todo,              \* resolve_conflicts: neighbours not yet visited
  rsv_local,             \* history: the local chain when the call started
  rsv_offered,           \* history: the responses fetched by the call
  fc,                    \* full_chain serving the call: its response dict
  rc_pc,                 \* where the RESPOND_CHAIN handler of a node stands
  rc_chain,              \* RESPOND_CHAIN: received_chain
  rq,                    \* REQUEST_CHAIN: the RESPOND_CHAIN message being made
  tx_pc,                 \* a transaction appended and not yet broadcast
  net,                   \* P2P messages sent and not yet received
  recorded,              \* history: the transactions recorded at each node
  call,                  \* a function called alone: its arguments
  result,                \* a function called alone: what it returned, in <<..>>
  candidate,             \* valid_chain called alone: the chain it is given
  verdict                \* valid_chain called alone: what it returned

vars ==
  <<chain, current_transactions, nodes, mine_pc, mine_last, mine_block,
    mine_alias, clock, rsv_pc, rsv_max_length, rsv_new_chain, rsv_todo, rsv_local,
    rsv_offered, fc, rc_pc, rc_chain, rq, tx_pc, net, recorded, candidate,
    verdict, call, result>>

ledgerVars == <<chain, current_transactions, nodes>>
mineVars == <<mine_pc, mine_last, mine_block, mine_alias, clock>>
rsvVars ==
  <<rsv_pc, rsv_max_length, rsv_new_chain, rsv_todo, rsv_local, rsv_offered,
    fc>>
rcVars == <<rc_pc, rc_chain>>
sendVars == <<rq, tx_pc>>
netVars == <<ledgerVars, mineVars, rsvVars, rcVars, sendVars, net>>
auxVars == <<recorded, candidate, verdict, call, result>>

last_block(n) == chain[n][Len(chain[n])]

\* __main__ of node n has passed line 496, which puts the node's own address
\* into its registry, and app.run (line 507) serves the routes.  Nothing
\* takes an entry out of a registry.
flask_runs(n) == n \in nodes[n]

\* A dictionary {'chain': blockchain.chain, 'length': len(blockchain.chain)}
\* while it is being built and until it is serialised.  Its 'chain' is the
\* list object of node `at`, not a copy: while `live`, it shows every block
\* appended to that list; once the node has bound self.chain to another
\* list, it is the list as it was left (`chain`).
NoDict ==
  [stage |-> "none", at |-> "", to |-> "", live |-> FALSE, chain |-> <<>>,
   length |-> 0]

\* 'chain': blockchain.chain
chain_entry(a, requester) ==
  [stage |-> "chain", at |-> a, to |-> requester, live |-> TRUE,
   chain |-> <<>>, length |-> 0]

\* the list a dictionary's 'chain' shows now
chain_shown(d) == IF d.live THEN chain[d.at] ELSE d.chain

\* 'length': len(blockchain.chain)
length_entry(d) ==
  [d EXCEPT !.stage = "length", !.length = Len(chain[d.at])]

\* node a binds self.chain to another list: the dictionary keeps the old one
kept_list(d, a) ==
  IF d.stage # "none" /\ d.at = a /\ d.live
    THEN [d EXCEPT !.live = FALSE, !.chain = chain[a]]
    ELSE d

\* the assignment self.chain = ... at node a, for the dictionaries in the making
Rebind(a) ==
  /\ fc' = [k \in Node |-> kept_list(fc[k], a)]
  /\ rq' = [k \in Node |-> kept_list(rq[k], a)]

\* Blockchain.create_deterministic_genesis_block on the chain of __init__
create_genesis_timestamped(local_chain) ==
  Append(local_chain, [genesis_block EXCEPT !.timestamp = 1])

create_deterministic_genesis_block(local_chain) ==
  Append(local_chain, genesis_block)

\* Blockchain.__init__, with the registry the nodes have come to
InitNode(registry) ==
  /\ chain = [n \in Node |-> create_deterministic_genesis_block(<<>>)]
  /\ current_transactions = [n \in Node |-> <<>>]
  /\ nodes = registry
  /\ mine_pc = [n \in Node |-> [t \in MineThread |-> "idle"]]
  /\ mine_last = [n \in Node |-> [t \in MineThread |-> genesis_block]]
  /\ mine_block = [n \in Node |-> [t \in MineThread |-> genesis_block]]
  /\ mine_alias = [n \in Node |-> [t \in MineThread |-> FALSE]]
  /\ clock = [n \in Node |-> 0]
  /\ rsv_pc = [n \in Node |-> "idle"]
  /\ rsv_max_length = [n \in Node |-> 0]
  /\ rsv_new_chain = [n \in Node |-> <<>>]
  /\ rsv_todo = [n \in Node |-> {}]
  /\ rsv_local = [n \in Node |-> <<>>]
  /\ rsv_offered = [n \in Node |-> {}]
  /\ fc = [n \in Node |-> NoDict]
  /\ rc_pc = [n \in Node |-> "idle"]
  /\ rc_chain = [n \in Node |-> <<>>]
  /\ rq = [n \in Node |-> NoDict]
  /\ tx_pc = [n \in Node |-> <<>>]
  /\ net = {}

\* __main__ up to line 490: the P2P server thread of each node is started
\* and the registry is the empty set of Blockchain.__init__ (line 21)
Init ==
  /\ InitNode([n \in Node |-> {}])
  /\ recorded = [n \in Node |-> <<>>]
  /\ call = <<>>
  /\ result = <<>>
  /\ candidate = <<>>
  /\ verdict = "none"

----------------------------------------------------------------------------
(* P2PNode.send_message and broadcast_message *)

\* http_node_address.split(':') for the entries a registry of the model holds
split_colon(entry) ==
  CASE entry = "127.0.0.1:5000" -> <<"127.0.0.1", "5000">>
    [] entry = "127.0.0.1:5001" -> <<"127.0.0.1", "5001">>
    [] entry = "10.0.0.2:5000" -> <<"10.0.0.2", "5000">>
    [] entry = "10.0.0.2:5001" -> <<"10.0.0.2", "5001">>
    [] entry = "10.0.0.2:abc" -> <<"10.0.0.2", "abc">>
    [] entry = "localhost" -> <<"localhost">>

\* int(http_port_str), which raises ValueError on any other string
int(digits) ==
  CASE digits = "5000" -> 5000
    [] digits = "5001" -> 5001

\* lines 455-456 raise no ValueError: the entry splits in two at ':' and
\* its second part is a number
parses(entry) ==
  /\ Len(split_colon(entry)) = 2
  /\ split_colon(entry)[2] \in {"5000", "5001"}

http_port(address) == int(split_colon(address)[2])

\* the port a node's P2PNode listens on
p2p_port(n) == http_port(n) + 1000

\* the peers broadcast_message sends to: an entry that raises ValueError is
\* passed over, and so is one whose derived port is exclude_port
broadcast_targets(n, exclude_port) ==
  {a \in nodes[n] : parses(a) /\ http_port(a) + 1000 # exclude_port}

broadcast_message(n, type, payload, exclude_port) ==
  {[to |-> a, type |-> type, payload |-> payload] :
     a \in broadcast_targets(n, exclude_port)}

\* send_message is best effort: a message is delivered at most once, and a
\* connection that fails loses it.  The network holds at most MaxInFlight
\* messages.
Sendable(in_flight, msgs) ==
  {kept \in SUBSET msgs : Cardinality(in_flight \cup kept) <= MaxInFlight}

Send(msgs) == \E kept \in Sendable(net, msgs) : net' = net \cup kept

\* the handler calls in progress
Running ==
  Cardinality({nt \in Node \X MineThread : mine_pc[nt[1]][nt[2]] # "idle"})
  + Cardinality({n \in Node : rsv_pc[n] # "idle"})
  + Cardinality({n \in Node : rc_pc[n] # "idle"})
  + Cardinality({n \in Node : rq[n].stage # "none"})
  + Cardinality({n \in Node : tx_pc[n] # <<>>})

ThreadFree == Running < MaxThreads

----------------------------------------------------------------------------
(* POST /transactions/new and POST /nodes/register *)

\* Blockchain.new_transaction: the pending list with one more entry
new_transaction(pending, sender, recipient, amount) ==
  Append(pending, [sender |-> sender, recipient |-> recipient,
                   amount |-> amount])

\* Blockchain.new_transaction, line 77: the index it returns
new_transaction_index(local_chain) == local_chain[Len(local_chain)].index + 1

\* the route new_transaction up to the call of broadcast_message: the
\* transaction is in the pending list and no message has been sent
RecordTransaction(n, tx) ==
  /\ flask_runs(n)
  /\ Len(current_transactions[n]) < MaxPending
  /\ tx_pc[n] = <<>>
  /\ ThreadFree
  /\ current_transactions' =
       [current_transactions EXCEPT
          ![n] = new_transaction(@, tx.sender, tx.recipient, tx.amount)]
  /\ tx_pc' = [tx_pc EXCEPT ![n] = <<tx>>]
  /\ UNCHANGED <<chain, nodes, mineVars, rsvVars, rcVars, rq, net>>

\* broadcast_message({'type': 'NEW_TRANSACTION', 'payload': ...},
\* exclude_port=p2p_node.port), called by the route new_transaction (line
\* 296) and by the NEW_TRANSACTION handler (line 406) after their append
BroadcastTransaction(n) ==
  /\ tx_pc[n] # <<>>
  /\ Send(broadcast_message(n, "NEW_TRANSACTION", tx_pc[n][1], p2p_port(n)))
  /\ tx_pc' = [tx_pc EXCEPT ![n] = <<>>]
  /\ UNCHANGED <<ledgerVars, mineVars, rsvVars, rcVars, rq>>

\* An address is the sequence of the pieces of its text: a scheme with its
\* '://', a host, ':', a port, '/', a path segment.
Scheme == {"http://", "https://"}

\* address.startswith('http://') or address.startswith('https://')
has_scheme(address) == address # <<>> /\ address[1] \in Scheme

\* lines 131-132: prepend 'http://' if no scheme is there
with_scheme(address) ==
  IF has_scheme(address) THEN address ELSE <<"http://">> \o address

\* urlparse(url).netloc of a url that starts with a scheme: what stands
\* between '//' and the first '/', '?' or '#'
RECURSIVE up_to_path(_)
up_to_path(pieces) ==
  IF pieces = <<>> \/ Head(pieces) \in {"/", "?", "#"}
    THEN <<>>
    ELSE <<Head(pieces)>> \o up_to_path(Tail(pieces))

netloc(url) == up_to_path(Tail(url))

\* the text of a sequence of pieces
RECURSIVE text(_)
text(pieces) ==
  IF pieces = <<>> THEN "" ELSE Head(pieces) \o text(Tail(pieces))

\* line 138: register_node raises ValueError
register_raises(address) == netloc(with_scheme(address)) = <<>>

\* an earlier form of register_node: the address is stored as it was given
register_node_as_given(registry, address) ==
  IF address = <<>> THEN registry ELSE registry \cup {text(address)}

\* Blockchain.register_node: the registry after the call, which is the old
\* one if the call raises
register_node(registry, address) ==
  IF register_raises(address)
    THEN registry
    ELSE registry \cup {text(netloc(with_scheme(address)))}

\* the bare form host:port of the address of a node
bare_form(a) == <<split_colon(a)[1], ":", split_colon(a)[2]>>

\* Blockchain.register_node called while the node runs.  resolve_conflicts
\* iterates over self.nodes itself, from the for statement of line 199 on: a
\* registration that grows the set while the call iterates makes the for
\* statement raise RuntimeError at its next turn, which ends the call; one
\* that comes before the for statement is visited by the loop, and one that
\* comes after the for statement has ended leaves the call alone.
registers(n, address) ==
  /\ nodes' = [nodes EXCEPT ![n] = register_node(@, address)]
  /\ IF rsv_pc[n] = "scan"
       THEN \/ /\ rsv_pc' = [rsv_pc EXCEPT ![n] = "idle"]
               /\ rsv_max_length' = [rsv_max_length EXCEPT ![n] = 0]
               /\ rsv_new_chain' = [rsv_new_chain EXCEPT ![n] = <<>>]
               /\ rsv_todo' = [rsv_todo EXCEPT ![n] = {}]
               /\ rsv_local' = [rsv_local EXCEPT ![n] = <<>>]
               /\ rsv_offered' = [rsv_offered EXCEPT ![n] = {}]
               /\ fc' = [fc EXCEPT ![n] = NoDict]
            \/ /\ rsv_todo[n] = {}
               /\ UNCHANGED rsvVars
       ELSE UNCHANGED rsvVars
  /\ UNCHANGED <<chain, current_transactions, mineVars, rcVars, sendVars, net>>

\* __main__, lines 496-507: blockchain.register_node(own address), then
\* app.run.  The P2P server thread runs since line 490.
StartFlask(n) ==
  /\ ~flask_runs(n)
  /\ registers(n, bare_form(n))

\* the route register_nodes with one address
RegisterNode(n, a) ==
  /\ flask_runs(n)
  /\ a \notin nodes[n]
  /\ registers(n, bare_form(a))

----------------------------------------------------------------------------
(* GET /mine *)

\* the reward transaction of mine
reward(n) == [sender |-> "0", recipient |-> node_identifier(n), amount |-> 1]

\* the /mine requests that have not yet read the time
to_forge ==
  Cardinality({nt \in Node \X MineThread :
                 mine_pc[nt[1]][nt[2]] \in {"reward", "index", "timestamp"}})

\* the latest value time.time() has given to any node
latest == CHOOSE now \in 0..MaxClock :
            /\ \E n \in Node : clock[n] = now
            /\ \A n \in Node : clock[n] <= now

\* last_block = blockchain.last_block; proof = proof_of_work(last_proof)
MineStart(n, t) ==
  /\ mine_pc[n][t] = "idle"
  /\ ThreadFree
  /\ flask_runs(n)
  /\ Len(chain[n]) < MaxChainLen
  /\ latest + to_forge < MaxClock
  /\ mine_pc' = [mine_pc EXCEPT ![n][t] = "reward"]
  /\ mine_last' = [mine_last EXCEPT ![n][t] = last_block(n)]
  /\ UNCHANGED <<ledgerVars, mine_block, mine_alias, clock, rsvVars, rcVars,
                 sendVars, net>>

\* blockchain.new_transaction(sender="0", recipient=node_identifier, amount=1)
MineReward(n, t) ==
  /\ mine_pc[n][t] = "reward"
  /\ mine_pc' = [mine_pc EXCEPT ![n][t] = "index"]
  /\ current_transactions' =
       [current_transactions EXCEPT
          ![n] = new_transaction(@, reward(n).sender, reward(n).recipient,
                                 reward(n).amount)]
  /\ UNCHANGED <<chain, nodes, mine_last, mine_block, mine_alias, clock,
                 rsvVars, rcVars, sendVars, net>>

\* new_block, lines 50-58: the block dictionary.  previous_hash is the one
\* mine passes; 'transactions' is the pending list itself, not a copy.
new_block(local_chain, timestamp, proof, previous_hash) ==
  [index |-> Len(local_chain) + 1, timestamp |-> timestamp,
   transactions |-> <<>>, proof |-> proof, previous_hash |-> previous_hash]

\* mine, line 263, and new_block up to line 53: previous_hash is the digest
\* of the block mine read at line 250, 'index' is len(self.chain) + 1.  The
\* entries of lines 54 and 55 are not yet evaluated.
MineIndex(n, t) ==
  /\ mine_pc[n][t] = "index"
  /\ mine_pc' = [mine_pc EXCEPT ![n][t] = "timestamp"]
  /\ mine_block' =
       [mine_block EXCEPT
          ![n][t] = new_block(chain[n], 0,
                              proof_of_work(mine_last[n][t].proof),
                              hash(mine_last[n][t]))]
  /\ UNCHANGED <<ledgerVars, mine_last, mine_alias, clock, rsvVars, rcVars,
                 sendVars, net>>

\* new_block, line 54: 'timestamp': time.time()
MineTimestamp(n, t) ==
  /\ mine_pc[n][t] = "timestamp"
  /\ mine_pc' = [mine_pc EXCEPT ![n][t] = "transactions"]
  /\ \E now \in Timestamp :
       /\ now > clock[n]
       /\ now \in {latest, latest + 1}
       /\ clock' = [clock EXCEPT ![n] = now]
       /\ mine_block' = [mine_block EXCEPT ![n][t].timestamp = now]
  /\ UNCHANGED <<ledgerVars, mine_last, mine_alias, rsvVars, rcVars, sendVars,
                 net>>

\* new_block, lines 55-58: 'transactions': self.current_transactions, the
\* list the node holds now
MineTransactions(n, t) ==
  /\ mine_pc[n][t] = "transactions"
  /\ mine_pc' = [mine_pc EXCEPT ![n][t] = "reset"]
  /\ mine_alias' = [mine_alias EXCEPT ![n][t] = TRUE]
  /\ UNCHANGED <<ledgerVars, mine_last, mine_block, clock, rsvVars, rcVars,
                 sendVars, net>>

\* the block a /mine thread holds: while its 'transactions' is the pending
\* list, every append to that list shows in the block
held_block(n, t) ==
  IF mine_alias[n][t]
    THEN [mine_block[n][t] EXCEPT !.transactions = current_transactions[n]]
    ELSE mine_block[n][t]

\* new_block, line 61: self.current_transactions = [].  The list it replaces
\* stays in every block that was built on it.
MineReset(n, t) ==
  /\ mine_pc[n][t] = "reset"
  /\ mine_pc' = [mine_pc EXCEPT ![n][t] = "append"]
  /\ mine_block' =
       [mine_block EXCEPT ![n] = [u \in MineThread |-> held_block(n, u)]]
  /\ mine_alias' = [mine_alias EXCEPT ![n] = [u \in MineThread |-> FALSE]]
  /\ current_transactions' = [current_transactions EXCEPT ![n] = <<>>]
  /\ UNCHANGED <<chain, nodes, mine_last, clock, rsvVars, rcVars, sendVars,
                 net>>

\* new_block, line 62: self.chain.append(block)
MineAppend(n, t) ==
  /\ mine_pc[n][t] = "append"
  /\ mine_pc' = [mine_pc EXCEPT ![n][t] = "broadcast"]
  /\ chain' = [chain EXCEPT ![n] = Append(@, mine_block[n][t])]
  /\ UNCHANGED <<current_transactions, nodes, mine_last, mine_block,
                 mine_alias, clock, rsvVars, rcVars, sendVars, net>>

\* mine, line 276: broadcast NEW_BLOCK, then answer the request
MineBroadcast(n, t) ==
  /\ mine_pc[n][t] = "broadcast"
  /\ mine_pc' = [mine_pc EXCEPT ![n][t] = "idle"]
  /\ mine_last' = [mine_last EXCEPT ![n][t] = genesis_block]
  /\ mine_block' = [mine_block EXCEPT ![n][t] = genesis_block]
  /\ Send(broadcast_message(n, "NEW_BLOCK", mine_block[n][t], p2p_port(n)))
  /\ UNCHANGED <<ledgerVars, mine_alias, clock, rsvVars, rcVars, sendVars>>

----------------------------------------------------------------------------
(* GET /chain and Blockchain.resolve_conflicts *)

\* the body jsonify makes of the response dictionary of full_chain: the list
\* as it is when it is serialised, the length as it was when it was read
full_chain(d) == [chain |-> chain_shown(d), length |-> d.length]

\* lines 192-196: neighbours, new_chain = None, max_length = len(self.chain)
RsvStart(n) ==
  /\ rsv_pc[n] = "idle"
  /\ ThreadFree
  /\ rsv_pc' = [rsv_pc EXCEPT ![n] = "start"]
  /\ rsv_max_length' = [rsv_max_length EXCEPT ![n] = Len(chain[n])]
  /\ rsv_new_chain' = [rsv_new_chain EXCEPT ![n] = <<>>]
  /\ rsv_todo' = [rsv_todo EXCEPT ![n] = {}]
  /\ rsv_local' = [rsv_local EXCEPT ![n] = chain[n]]
  /\ rsv_offered' = [rsv_offered EXCEPT ![n] = {}]
  /\ fc' = [fc EXCEPT ![n] = NoDict]

\* line 199: the for statement takes the iterator of self.nodes
RsvLoop(n) ==
  /\ rsv_pc[n] = "start"
  /\ rsv_pc' = [rsv_pc EXCEPT ![n] = "scan"]
  /\ rsv_todo' = [rsv_todo EXCEPT ![n] = nodes[n]]
  /\ UNCHANGED <<ledgerVars, mineVars, rsv_max_length, rsv_new_chain,
                 rsv_local, rsv_offered, fc, rcVars, sendVars, net>>

accepts_unvalidated(max_length, own, response) ==
  response.length > max_length

\* line 209: the test a fetched chain must pass to become new_chain
accepts(max_length, own, response) ==
  response.length > max_length /\ valid_chain(own, response.chain)

\* GET /nodes/resolve
Consensus(n) ==
  /\ flask_runs(n)
  /\ RsvStart(n)
  /\ UNCHANGED <<ledgerVars, mineVars, rcVars, sendVars, net>>

\* line 202: requests.get reaches neighbour a, whose full_chain evaluates
\* 'chain': blockchain.chain (line 304)
RsvRequest(n, a) ==
  /\ rsv_pc[n] = "scan"
  /\ a \in rsv_todo[n] \cap Node
  /\ flask_runs(a)
  /\ fc[n].stage = "none"
  /\ fc' = [fc EXCEPT ![n] = chain_entry(a, n)]
  /\ UNCHANGED <<ledgerVars, mineVars, rsv_pc, rsv_max_length, rsv_new_chain,
                 rsv_todo, rsv_local, rsv_offered, rcVars, sendVars, net>>

\* full_chain of the neighbour evaluates 'length': len(blockchain.chain)
\* (line 305)
RsvLength(n) ==
  /\ fc[n].stage = "chain"
  /\ fc' = [fc EXCEPT ![n] = length_entry(@)]
  /\ UNCHANGED <<ledgerVars, mineVars, rsv_pc, rsv_max_length, rsv_new_chain,
                 rsv_todo, rsv_local, rsv_offered, rcVars, sendVars, net>>

\* line 307 at the neighbour, then lines 203-211: the response comes with
\* status 200
RsvFetchOk(n) ==
  /\ fc[n].stage = "length"
  /\ rsv_todo' = [rsv_todo EXCEPT ![n] = @ \ {fc[n].at}]
  /\ rsv_offered' = [rsv_offered EXCEPT ![n] = @ \cup {full_chain(fc[n])}]
  /\ IF accepts(rsv_max_length[n], chain[n], full_chain(fc[n]))
       THEN /\ rsv_max_length' =
                 [rsv_max_length EXCEPT ![n] = full_chain(fc[n]).length]
            /\ rsv_new_chain' =
                 [rsv_new_chain EXCEPT ![n] = full_chain(fc[n]).chain]
       ELSE UNCHANGED <<rsv_max_length, rsv_new_chain>>
  /\ fc' = [fc EXCEPT ![n] = NoDict]
  /\ UNCHANGED <<ledgerVars, mineVars, rsv_pc, rsv_local, rcVars, sendVars,
                 net>>

\* a scan that gives up at the first neighbour that fails
RsvFetchFail_aborting(n, a) ==
  /\ rsv_pc[n] = "scan"
  /\ a \in rsv_todo[n]
  /\ fc[n].stage = "none"
  /\ rsv_pc' = [rsv_pc EXCEPT ![n] = "idle"]
  /\ rsv_max_length' = [rsv_max_length EXCEPT ![n] = 0]
  /\ rsv_new_chain' = [rsv_new_chain EXCEPT ![n] = <<>>]
  /\ rsv_todo' = [rsv_todo EXCEPT ![n] = {}]
  /\ rsv_local' = [rsv_local EXCEPT ![n] = <<>>]
  /\ rsv_offered' = [rsv_offered EXCEPT ![n] = {}]
  /\ UNCHANGED <<ledgerVars, mineVars, fc, rcVars, sendVars, net>>

\* lines 212-220: the neighbour is unreachable (except ConnectionError,
\* continue), answers with another status than 200 (else branch, line 213),
\* or sends a body that raises in response.json(), in the subscripts of
\* lines 204-205 or in valid_chain (except Exception, continue).  None of
\* these paths reaches the assignments of lines 210-211.
RsvFetchFail(n, a) ==
  /\ rsv_pc[n] = "scan"
  /\ a \in rsv_todo[n]
  /\ fc[n].stage = "none"
  /\ rsv_todo' = [rsv_todo EXCEPT ![n] = @ \ {a}]
  /\ UNCHANGED <<ledgerVars, mineVars, rsv_pc, rsv_max_length, rsv_new_chain,
                 rsv_local, rsv_offered, fc, rcVars, sendVars, net>>

RsvEnd(n) ==
  /\ rsv_pc' = [rsv_pc EXCEPT ![n] = "idle"]
  /\ rsv_max_length' = [rsv_max_length EXCEPT ![n] = 0]
  /\ rsv_new_chain' = [rsv_new_chain EXCEPT ![n] = <<>>]
  /\ rsv_todo' = [rsv_todo EXCEPT ![n] = {}]
  /\ rsv_local' = [rsv_local EXCEPT ![n] = <<>>]
  /\ rsv_offered' = [rsv_offered EXCEPT ![n] = {}]

\* lines 223-226: self.chain = new_chain; return True
RsvReturnTrue(n) ==
  /\ rsv_pc[n] = "scan"
  /\ rsv_todo[n] = {}
  /\ rsv_new_chain[n] # <<>>
  /\ chain' = [chain EXCEPT ![n] = rsv_new_chain[n]]
  /\ Rebind(n)
  /\ RsvEnd(n)
  /\ UNCHANGED <<current_transactions, nodes, mineVars, rcVars, tx_pc, net>>

\* lines 228-229: return False
RsvReturnFalse(n) ==
  /\ rsv_pc[n] = "scan"
  /\ rsv_todo[n] = {}
  /\ rsv_new_chain[n] = <<>>
  /\ RsvEnd(n)
  /\ UNCHANGED <<ledgerVars, mineVars, fc, rcVars, sendVars, net>>

----------------------------------------------------------------------------
(* P2PNode.process_p2p_message *)

\* NEW_BLOCK, lines 392-398: the payload is printed and not used again;
\* self.blockchain.resolve_conflicts()
ReceiveNewBlock(n, m) ==
  /\ m \in net /\ m.to = n /\ m.type = "NEW_BLOCK"
  /\ net' = net \ {m}
  /\ RsvStart(n)
  /\ UNCHANGED <<ledgerVars, mineVars, rcVars, sendVars>>

\* NEW_TRANSACTION, lines 402-405: append the payload; the broadcast of line
\* 406 is BroadcastTransaction.  The handler appends whatever the list
\* holds; it is not started on a list of `cap` entries.
new_transaction_handler(n, m, cap) ==
  /\ m \in net /\ m.to = n /\ m.type = "NEW_TRANSACTION"
  /\ Len(current_transactions[n]) < cap
  /\ tx_pc[n] = <<>>
  /\ ThreadFree
  /\ net' = net \ {m}
  /\ current_transactions' =
       [current_transactions EXCEPT ![n] = Append(@, m.payload)]
  /\ tx_pc' = [tx_pc EXCEPT ![n] = <<m.payload>>]
  /\ UNCHANGED <<chain, nodes, mineVars, rsvVars, rcVars, rq>>

\* REQUEST_CHAIN with the sender_host and sender_port of `requester`, lines
\* 411-417: the handler builds the message; line 416 evaluates
\* 'chain': self.blockchain.chain and 'length': len(self.blockchain.chain).
\* No code of the node sends REQUEST_CHAIN: it comes from whoever connects
\* to the P2P port.
ReceiveRequestChain(n, requester) ==
  /\ rq[n].stage = "none"
  /\ ThreadFree
  /\ rq' = [rq EXCEPT ![n] = length_entry(chain_entry(n, requester))]
  /\ UNCHANGED <<ledgerVars, mineVars, rsvVars, rcVars, tx_pc, net>>

\* send_message, line 439: json.dumps(message) and sendall
RespondChain(n) ==
  /\ rq[n].stage = "length"
  /\ Send({[to |-> rq[n].to, type |-> "RESPOND_CHAIN",
            payload |-> full_chain(rq[n])]})
  /\ rq' = [rq EXCEPT ![n] = NoDict]
  /\ UNCHANGED <<ledgerVars, mineVars, rsvVars, rcVars, tx_pc>>

\* a test that also lets a chain of the same length through
respond_accepts_not_shorter(local, received_chain) ==
  Len(received_chain) >= Len(local) /\ valid_chain(local, received_chain)

\* a connection to the P2P port of n delivers RESPOND_CHAIN with this chain
OfferChain(n, received_chain) ==
  /\ Send({[to |-> n, type |-> "RESPOND_CHAIN",
            payload |-> [chain |-> received_chain,
                         length |-> Len(received_chain)]]})
  /\ UNCHANGED <<ledgerVars, mineVars, rsvVars, rcVars, sendVars>>

\* line 425: the test a received chain must pass to replace the local one
respond_accepts(local, received_chain) ==
  Len(received_chain) > Len(local) /\ valid_chain(local, received_chain)

\* RESPOND_CHAIN, lines 424-425
ReceiveRespondChain(n, m) ==
  /\ m \in net /\ m.to = n /\ m.type = "RESPOND_CHAIN"
  /\ rc_pc[n] = "idle"
  /\ ThreadFree
  /\ net' = net \ {m}
  /\ IF respond_accepts(chain[n], m.payload.chain)
       THEN /\ rc_pc' = [rc_pc EXCEPT ![n] = "install"]
            /\ rc_chain' = [rc_chain EXCEPT ![n] = m.payload.chain]
       ELSE UNCHANGED rcVars
  /\ UNCHANGED <<ledgerVars, mineVars, rsvVars, sendVars>>

\* RESPOND_CHAIN, line 426: self.blockchain.chain = received_chain
RespondInstall(n) ==
  /\ rc_pc[n] = "install"
  /\ chain' = [chain EXCEPT ![n] = rc_chain[n]]
  /\ Rebind(n)
  /\ rc_pc' = [rc_pc EXCEPT ![n] = "idle"]
  /\ rc_chain' = [rc_chain EXCEPT ![n] = <<>>]
  /\ UNCHANGED <<current_transactions, nodes, mineVars, rsv_pc,
                 rsv_max_length, rsv_new_chain, rsv_todo, rsv_local,
                 rsv_offered, tx_pc, net>>

\* a message whose connection fails is lost (send_message, lines 441-444)
LoseMessage(m) ==
  /\ m \in net
  /\ net' = net \ {m}
  /\ UNCHANGED <<ledgerVars, mineVars, rsvVars, rcVars, sendVars>>

----------------------------------------------------------------------------
(* The network of nodes that mine and exchange chains; one /mine request at *)
(* a time per node, nobody posts a transaction, and a REQUEST_CHAIN message *)
(* names another node of the network as its sender                          *)

Next ==
  \/ \E n \in Node : StartFlask(n) /\ UNCHANGED auxVars
  \/ \E n \in Node, a \in Node : RegisterNode(n, a) /\ UNCHANGED auxVars
  \/ \E n \in Node : MineStart(n, 1) /\ UNCHANGED auxVars
  \/ \E n \in Node : MineReward(n, 1) /\ UNCHANGED auxVars
  \/ \E n \in Node : MineIndex(n, 1) /\ UNCHANGED auxVars
  \/ \E n \in Node : MineTimestamp(n, 1) /\ UNCHANGED auxVars
  \/ \E n \in Node : MineTransactions(n, 1) /\ UNCHANGED auxVars
  \/ \E n \in Node : MineReset(n, 1) /\ UNCHANGED auxVars
  \/ \E n \in Node : MineAppend(n, 1) /\ UNCHANGED auxVars
  \/ \E n \in Node : MineBroadcast(n, 1) /\ UNCHANGED auxVars
  \/ \E n \in Node : Consensus(n) /\ UNCHANGED auxVars
  \/ \E n \in Node : RsvLoop(n) /\ UNCHANGED auxVars
  \/ \E n \in Node, a \in Node : RsvRequest(n, a) /\ UNCHANGED auxVars
  \/ \E n \in Node : RsvLength(n) /\ UNCHANGED auxVars
  \/ \E n \in Node : RsvFetchOk(n) /\ UNCHANGED auxVars
  \/ \E n \in Node, a \in Node : RsvFetchFail(n, a) /\ UNCHANGED auxVars
  \/ \E n \in Node : RsvReturnTrue(n) /\ UNCHANGED auxVars
  \/ \E n \in Node : RsvReturnFalse(n) /\ UNCHANGED auxVars
  \/ \E n \in Node, m \in net : ReceiveNewBlock(n, m) /\ UNCHANGED auxVars
  \/ \E n \in Node : \E a \in Node \ {n} :
       ReceiveRequestChain(n, a) /\ UNCHANGED auxVars
  \/ \E n \in Node : RespondChain(n) /\ UNCHANGED auxVars
  \/ \E n \in Node, m \in net : ReceiveRespondChain(n, m) /\ UNCHANGED auxVars
  \/ \E n \in Node : RespondInstall(n) /\ UNCHANGED auxVars
  \/ \E m \in net : LoseMessage(m) /\ UNCHANGED auxVars

Spec == Init /\ [][Next]_vars

----------------------------------------------------------------------------
(* Nodes that record transactions, mine and receive chains; no node has    *)
(* registered another, so no node sends a message to another by itself     *)

PendingNext ==
  \/ \E n \in Node : StartFlask(n) /\ UNCHANGED auxVars
  \/ \E n \in Node, tx \in UserTx : RecordTransaction(n, tx) /\ UNCHANGED auxVars
  \/ \E n \in Node : BroadcastTransaction(n) /\ UNCHANGED auxVars
  \/ \E n \in Node : MineStart(n, 1) /\ UNCHANGED auxVars
  \/ \E n \in Node : MineReward(n, 1) /\ UNCHANGED auxVars
  \/ \E n \in Node : MineIndex(n, 1) /\ UNCHANGED auxVars
  \/ \E n \in Node : MineTimestamp(n, 1) /\ UNCHANGED auxVars
  \/ \E n \in Node : MineTransactions(n, 1) /\ UNCHANGED auxVars
  \/ \E n \in Node : MineReset(n, 1) /\ UNCHANGED auxVars
  \/ \E n \in Node : MineAppend(n, 1) /\ UNCHANGED auxVars
  \/ \E n \in Node : MineBroadcast(n, 1) /\ UNCHANGED auxVars
  \/ \E n \in Node, a \in Node : ReceiveRequestChain(n, a) /\ UNCHANGED auxVars
  \/ \E n \in Node : RespondChain(n) /\ UNCHANGED auxVars
  \/ \E n \in Node, m \in net : ReceiveRespondChain(n, m) /\ UNCHANGED auxVars
  \/ \E n \in Node : RespondInstall(n) /\ UNCHANGED auxVars
  \/ \E m \in net : LoseMessage(m) /\ UNCHANGED auxVars

SpecPending == Init /\ [][PendingNext]_vars

----------------------------------------------------------------------------
(* Chain integrity *)

\* each block but the first names the digest of the block before it
linked(c) == \A i \in 2..Len(c) : c[i].previous_hash = hash(c[i - 1])

\* each block but the first carries a proof that solves the one before it
proven(c) == \A i \in 2..Len(c) : valid_proof(c[i - 1].proof, c[i].proof)

\* C1: in every reachable state, every block at position > 1 of a node's
\* chain has previous_hash equal to the hash of the block before it, also
\* when a /mine request interleaves with a chain replacement.
C1_PreviousHashLinks == \A n \in Node : linked(chain[n])

\* C2: in every reachable state, every pair of consecutive blocks of a node's
\* chain satisfies valid_proof(prev.proof, cur.proof), also when mining
\* interleaves with a chain replacement.
C2_ProofsVerify == \A n \in Node : proven(chain[n])

\* C3: no step shortens a node's chain, and a replacement by
\* resolve_conflicts or by the RESPOND_CHAIN handler installs a chain strictly
\* longer than the one it replaces, also when mining interleaves.
C3_LengthMonotonic ==
  [][\A n \in Node :
       /\ Len(chain'[n]) >= Len(chain[n])
       /\ (RsvReturnTrue(n) \/ RespondInstall(n))
            => Len(chain'[n]) > Len(chain[n])]_vars

\* C4: a chain that fails valid_chain is never installed as the local chain,
\* neither by resolve_conflicts nor by the RESPOND_CHAIN handler, even when
\* it is the longest chain offered.
C4_InvalidNeverInstalled ==
  [][\A n \in Node :
       (RsvReturnTrue(n) \/ RespondInstall(n))
         => valid_chain(chain[n], chain'[n])]_vars

\* a resolve_conflicts call has fetched a chain that fails valid_chain and is
\* longer than every other chain it fetched and than the local chain, and
\* has not taken it as new_chain
C4_Witness ==
  \E n \in Node : \E r \in rsv_offered[n] :
    /\ rsv_pc[n] = "scan"
    /\ ~valid_chain(chain[n], r.chain)
    /\ r.length > Len(chain[n])
    /\ \A q \in rsv_offered[n] : q.length <= r.length
    /\ rsv_new_chain[n] # r.chain

----------------------------------------------------------------------------
(* The result of resolve_conflicts *)

\* the responses a call fetched whose chain passes valid_chain on node n
valid_offers(n) == {r \in rsv_offered[n] : valid_chain(chain[n], r.chain)}

\* C5: resolve_conflicts returns True exactly when a registered, reachable
\* peer offered a chain that passes valid_chain and is strictly longer than
\* the local chain was when the call began; a call that returns False has not
\* changed the local chain at any of its steps.
C5_ReturnValue ==
  [][\A n \in Node :
       /\ RsvReturnTrue(n) =>
            \E r \in valid_offers(n) : Len(r.chain) > Len(rsv_local[n])
       /\ RsvReturnFalse(n) =>
            /\ \A r \in valid_offers(n) : Len(r.chain) <= Len(rsv_local[n])
            /\ chain'[n] = chain[n]
       /\ ( \/ Consensus(n) \/ RsvLoop(n) \/ RsvLength(n) \/ RsvFetchOk(n)
            \/ \E a \in Node : RsvRequest(n, a) \/ RsvFetchFail(n, a) )
            => chain'[n] = chain[n]]_vars

\* C6: when resolve_conflicts returns True the local chain is the chain one
\* of the queried peers served, and its length is the greatest length among
\* the valid chains the peers served.
C6_LongestValidAdopted ==
  [][\A n \in Node :
       RsvReturnTrue(n) =>
         /\ \E r \in rsv_offered[n] : chain'[n] = r.chain
         /\ \A r \in valid_offers(n) : Len(r.chain) <= Len(chain'[n])]_vars

----------------------------------------------------------------------------
(* The genesis block *)

\* C10: in every reachable state every node's chain is non-empty and begins
\* with the fixed genesis block (index 1, timestamp 0, no transactions, proof
\* 100, previous_hash '1'), so all nodes have one genesis digest.
C10_GenesisFixed ==
  \A n \in Node :
    /\ chain[n] # <<>>
    /\ chain[n][1].index = 1
    /\ chain[n][1].timestamp = 0
    /\ chain[n][1].transactions = <<>>
    /\ chain[n][1].proof = 100
    /\ chain[n][1].previous_hash = <<"1">>
    /\ \A m \in Node : hash(chain[n][1]) = hash(chain[m][1])

\* a node has mined on its genesis block and another node has replaced its
\* chain by that one
C10_Witness ==
  \E n, m \in Node :
    /\ n # m
    /\ Len(chain[n]) >= 2
    /\ chain[n][2].transactions # <<>>
    /\ chain[n][2].transactions[Len(chain[n][2].transactions)].recipient
         = node_identifier(m)

----------------------------------------------------------------------------
(* valid_chain called alone on a valid chain with one field changed *)

\* the longest chain valid_chain is given
MaxCandidateLen == 3

\* a block mined on local_chain the way mine and new_block build it
mined_block(local_chain, transactions, timestamp) ==
  [new_block(local_chain, timestamp,
             proof_of_work(local_chain[Len(local_chain)].proof),
             hash(local_chain[Len(local_chain)]))
     EXCEPT !.transactions = transactions]

\* what a mined block can hold
MinedTransactions ==
  {<<reward("127.0.0.1:5000")>>}
    \cup {<<tx, reward("127.0.0.1:5000")>> : tx \in UserTx}

\* the chains of length k that a node mining alone can hold
RECURSIVE MinedChains(_)
MinedChains(k) ==
  IF k = 1
    THEN {create_deterministic_genesis_block(<<>>)}
    ELSE UNION {{Append(c, mined_block(c, txs, now)) :
                   txs \in MinedTransactions,
                   now \in {t \in Timestamp : t > c[Len(c)].timestamp}} :
                  c \in MinedChains(k - 1)}

\* the values a field is changed to
TamperValues(field) ==
  CASE field = "previous_hash" ->
         {<<"1">>, <<"2">>, hash(genesis_block),
          hash([genesis_block EXCEPT !.proof = 1])}
    [] field = "proof" -> {0, 100, 35293, 88145, 35089, 50265}
    [] field = "transactions" ->
         {<<>>, <<reward("127.0.0.1:5000")>>, <<reward("127.0.0.1:5001")>>}

tamper(c, at, field, value) ==
  CASE field = "previous_hash" -> [c EXCEPT ![at].previous_hash = value]
    [] field = "proof" -> [c EXCEPT ![at].proof = value]
    [] field = "transactions" -> [c EXCEPT ![at].transactions = value]

field_of(block, field) ==
  CASE field = "previous_hash" -> block.previous_hash
    [] field = "proof" -> block.proof
    [] field = "transactions" -> block.transactions

Fields == {"previous_hash", "proof", "transactions"}

\* chain c with one field of the block at one position changed to a
\* different value
CandidatesOf(c) ==
  UNION {
    {[original |-> c, at |-> af[1], field |-> af[2], value |-> value,
      chain |-> tamper(c, af[1], af[2], value)] :
       value \in {v \in TamperValues(af[2]) : v # field_of(c[af[1]], af[2])}} :
    af \in (1..Len(c)) \X Fields}

Candidates ==
  UNION {CandidatesOf(c) :
           c \in UNION {MinedChains(k) : k \in 1..MaxCandidateLen}}

InitValidator ==
  /\ InitNode([n \in Node |-> {n}])
  /\ recorded = [n \in Node |-> <<>>]
  /\ call = <<>>
  /\ result = <<>>
  /\ candidate \in Candidates
  /\ verdict = "none"

\* a node at genesis calls self.valid_chain(chain) on the candidate
Validate(n) ==
  /\ verdict = "none"
  /\ verdict' = IF valid_chain(chain[n], candidate.chain)
                  THEN "True" ELSE "False"
  /\ UNCHANGED <<netVars, recorded, candidate, call, result>>

ValidatorNext == \E n \in Node : Validate(n)

SpecValidator == InitValidator /\ [][ValidatorNext]_vars

----------------------------------------------------------------------------
(* valid_chain on a valid chain with one field of one block changed *)

\* the change is to the last block, which no later block's previous_hash
\* covers, and leaves the checks on that block satisfied
unchecked_change(cand) ==
  /\ cand.at = Len(cand.chain)
  /\ cand.at > 1
  /\ \/ cand.field = "transactions"
     \/ /\ cand.field = "proof"
        /\ valid_proof(cand.chain[cand.at - 1].proof, cand.value)

\* C7 as stated: whichever block of a valid chain has its previous_hash,
\* its proof or its transactions changed to a different value, valid_chain
\* returns False on the changed chain.
C7_AnyChangeRejected ==
  (verdict # "none" /\ valid_chain(<<genesis_block>>, candidate.original))
    => verdict = "False"

\* C7 amended: valid_chain returns False on the changed chain, except when
\* the change is to the transactions of the last block of a chain of two
\* or more blocks, or sets that block's proof to another value that
\* satisfies the proof-of-work condition; then it returns True.
C7_ChangeRejectedUnlessLastBlock ==
  (verdict # "none" /\ valid_chain(<<genesis_block>>, candidate.original))
    => (verdict = "False" <=> ~unchecked_change(candidate))

\* the transactions of a block that has a successor were changed and the
\* changed chain was rejected
C7_Witness ==
  /\ verdict = "False"
  /\ valid_chain(<<genesis_block>>, candidate.original)
  /\ candidate.field = "transactions"
  /\ candidate.at > 1
  /\ candidate.at < Len(candidate.chain)

----------------------------------------------------------------------------
(* The transactions of a node: recorded, pending, mined *)

\* the call blockchain.new_transaction enters the log of the node
Logged(n, tx) ==
  /\ recorded' = [recorded EXCEPT ![n] = Append(@, tx)]
  /\ UNCHANGED <<candidate, verdict, call, result>>

\* a connection to the P2P port of n delivers NEW_TRANSACTION with payload tx
OfferTransaction(n, tx) ==
  /\ Send({[to |-> n, type |-> "NEW_TRANSACTION", payload |-> tx]})
  /\ UNCHANGED <<ledgerVars, mineVars, rsvVars, rcVars, sendVars>>

\* nodes that record, receive transactions and mine, with two /mine requests
\* at a node; no node has registered another, so the broadcasts of lines
\* 276, 296 and 406 send nothing, and a NEW_TRANSACTION message comes from
\* whoever connects to the P2P port
LedgerNext ==
  \/ \E n \in Node : StartFlask(n) /\ UNCHANGED auxVars
  \/ \E n \in Node, tx \in UserTx : RecordTransaction(n, tx) /\ Logged(n, tx)
  \/ \E n \in Node, tx \in UserTx : OfferTransaction(n, tx) /\ UNCHANGED auxVars
  \/ \E n \in Node, m \in net :
       new_transaction_handler(n, m, MaxPending) /\ Logged(n, m.payload)
  \/ \E n \in Node : BroadcastTransaction(n) /\ UNCHANGED auxVars
  \/ \E n \in Node, t \in MineThread : MineStart(n, t) /\ UNCHANGED auxVars
  \/ \E n \in Node, t \in MineThread : MineReward(n, t) /\ Logged(n, reward(n))
  \/ \E n \in Node, t \in MineThread : MineIndex(n, t) /\ UNCHANGED auxVars
  \/ \E n \in Node, t \in MineThread : MineTimestamp(n, t) /\ UNCHANGED auxVars
  \/ \E n \in Node, t \in MineThread : MineTransactions(n, t) /\ UNCHANGED auxVars
  \/ \E n \in Node, t \in MineThread : MineReset(n, t) /\ UNCHANGED auxVars
  \/ \E n \in Node, t \in MineThread : MineAppend(n, t) /\ UNCHANGED auxVars
  \/ \E n \in Node, t \in MineThread : MineBroadcast(n, t) /\ UNCHANGED auxVars

SpecLedger == Init /\ [][LedgerNext]_vars

\* the transactions of the blocks of c, in chain order
RECURSIVE mined_transactions(_)
mined_transactions(c) ==
  IF c = <<>>
    THEN <<>>
    ELSE mined_transactions(SubSeq(c, 1, Len(c) - 1))
           \o c[Len(c)].transactions

\* no /mine request of node n is between its reward and its append
settled(pc) == \A t \in MineThread : pc[t] \in {"idle", "broadcast"}

\* C8: a step that appends a mined block leaves the pending buffer empty,
\* and the transactions recorded at a node are, in recording order, those of
\* its mined blocks followed by the pending ones: none is dropped and none
\* is in two blocks, also when recording interleaves with a concurrent mine.
C8_TransactionAccounting ==
  [][\A n \in Node :
       /\ (\E t \in MineThread : MineAppend(n, t))
            => current_transactions'[n] = <<>>
       /\ settled(mine_pc'[n])
            => recorded'[n] =
                 mined_transactions(chain'[n]) \o current_transactions'[n]]_vars

----------------------------------------------------------------------------
(* Nodes that know each other, mine, and keep calling resolve_conflicts *)

\* every node has registered every node
InitConverge ==
  /\ InitNode([n \in Node |-> Node])
  /\ recorded = [n \in Node |-> <<>>]
  /\ call = <<>>
  /\ result = <<>>
  /\ candidate = <<>>
  /\ verdict = "none"

\* the steps of a /mine request after its start
MineStep(n) ==
  /\ \/ MineReward(n, 1)
     \/ MineIndex(n, 1)
     \/ MineTimestamp(n, 1)
     \/ MineTransactions(n, 1)
     \/ MineReset(n, 1)
     \/ MineAppend(n, 1)
     \/ MineBroadcast(n, 1)
  /\ UNCHANGED auxVars

\* the steps of a call of resolve_conflicts after its start; a neighbour
\* answers (lines 203-211) or the fetch fails (lines 212-220)
ResolveStep(n) ==
  /\ \/ RsvLoop(n)
     \/ \E a \in Node : RsvRequest(n, a)
     \/ RsvLength(n)
     \/ RsvFetchOk(n)
     \/ \E a \in Node : RsvFetchFail(n, a)
     \/ RsvReturnTrue(n)
     \/ RsvReturnFalse(n)
  /\ UNCHANGED auxVars

ConvergeNext ==
  \/ \E n \in Node : MineStart(n, 1) /\ UNCHANGED auxVars
  \/ \E n \in Node : MineStep(n)
  \/ \E n \in Node : Consensus(n) /\ UNCHANGED auxVars
  \/ \E n \in Node : ResolveStep(n)
  \/ \E n \in Node, m \in net : ReceiveNewBlock(n, m) /\ UNCHANGED auxVars
  \/ \E m \in net : LoseMessage(m) /\ UNCHANGED auxVars

\* the thread of a request that has started runs to the request's end; no
\* request to mine or to resolve ever has to come.  The calls of
\* resolve_conflicts of one node are followed one after the other.
SpecConverge ==
  /\ InitConverge
  /\ [][ConvergeNext]_vars
  /\ \A n \in Node : WF_vars(MineStep(n)) /\ WF_vars(ResolveStep(n))

\* every node keeps running resolve_conflicts: GET /nodes/resolve is asked
\* of every node again and again
KeepsResolving ==
  \A n \in Node : []<><<Consensus(n) /\ UNCHANGED auxVars>>_vars

\* the registered nodes are reachable: from some time on no fetch fails
PeersReachable ==
  <>[][~ \E n \in Node, a \in Node : RsvFetchFail(n, a)]_vars

\* C9: if mining stops and every node keeps calling resolve_conflicts on a
\* registry of all nodes, and the nodes are reachable, then eventually and
\* for good all nodes hold the same chain, and it is a valid chain.  The
\* /mine requests of the network are finitely many, so mining stops.
C9_EventuallySameChain ==
  (KeepsResolving /\ PeersReachable)
    => <>[](\A n, m \in Node :
              chain[n] = chain[m] /\ valid_chain(chain[n], chain[m]))

----------------------------------------------------------------------------
(* Blockchain.hash called alone on two block dictionaries *)

\* the blocks of the chains a node mining alone can hold
MinedBlocks ==
  UNION {{c[i] : i \in 1..Len(c)} :
           c \in UNION {MinedChains(k) : k \in 1..MaxCandidateLen}}

\* the values of a 'hash' key a sender added to a block
HashFieldValues == {<<"0">>, <<"f">>}

\* the dictionary `block` with the key 'hash' set
with_hash(block, value) ==
  [k \in DOMAIN block \cup {"hash"} |->
     IF k = "hash" THEN value ELSE block[k]]

\* a block as new_block made it, or with a 'hash' key added
BlockForms(block) ==
  {block, with_hash(block, hash(block))}
    \cup {with_hash(block, v) : v \in HashFieldValues}

\* two dictionaries that agree on index, timestamp, transactions, proof and
\* previous_hash
HashCalls ==
  UNION {BlockForms(b) \X BlockForms(b) : b \in MinedBlocks}

InitHash ==
  /\ InitNode([n \in Node |-> {n}])
  /\ recorded = [n \in Node |-> <<>>]
  /\ candidate = <<>>
  /\ verdict = "none"
  /\ call \in HashCalls
  /\ result = <<>>

\* Blockchain.hash(call[1]) and Blockchain.hash(call[2])
HashBoth ==
  /\ result = <<>>
  /\ result' = <<hash(call[1]), hash(call[2])>>
  /\ UNCHANGED <<netVars, recorded, candidate, verdict, call>>

SpecHash == InitHash /\ [][HashBoth]_vars

\* C11: two blocks that agree on index, timestamp, transactions, proof and
\* previous_hash get one digest; a block that carries a 'hash' key gets the
\* digest of the same block without it.
C11_HashOfFiveFields ==
  result # <<>> => result[1] = result[2]

----------------------------------------------------------------------------
(* What changes the pending buffer and the registry *)

\* every block after the first holds the reward and nothing else
reward_only(c) == \A i \in 2..Len(c) : Len(c[i].transactions) = 1

\* the node whose handlers are followed
Receiver == "127.0.0.1:5000"

\* the chains of a miner that are longer than those the nodes mine here
LongerChains == {c \in MinedChains(MaxCandidateLen) : reward_only(c)}

\* `after` is `before` with one transaction appended
appended_one(before, after) ==
  /\ Len(after) = Len(before) + 1
  /\ SubSeq(after, 1, Len(before)) = before

\* a node that records, receives transactions, mines, calls
\* resolve_conflicts and receives chains.  No node has registered another,
\* so no message passes between nodes, each node runs by itself, and
\* Receiver is followed: its registry is its own address, and whoever
\* connects to its P2P port sends NEW_TRANSACTION or RESPOND_CHAIN.
BufferNext ==
  \/ StartFlask(Receiver) /\ UNCHANGED auxVars
  \/ \E tx \in UserTx : RecordTransaction(Receiver, tx) /\ UNCHANGED auxVars
  \/ BroadcastTransaction(Receiver) /\ UNCHANGED auxVars
  \/ \E tx \in UserTx : OfferTransaction(Receiver, tx) /\ UNCHANGED auxVars
  \/ \E m \in net :
       new_transaction_handler(Receiver, m, MaxPending) /\ UNCHANGED auxVars
  \/ MineStart(Receiver, 1) /\ UNCHANGED auxVars
  \/ MineReward(Receiver, 1) /\ UNCHANGED auxVars
  \/ MineIndex(Receiver, 1) /\ UNCHANGED auxVars
  \/ MineTimestamp(Receiver, 1) /\ UNCHANGED auxVars
  \/ MineTransactions(Receiver, 1) /\ UNCHANGED auxVars
  \/ MineReset(Receiver, 1) /\ UNCHANGED auxVars
  \/ MineAppend(Receiver, 1) /\ UNCHANGED auxVars
  \/ MineBroadcast(Receiver, 1) /\ UNCHANGED auxVars
  \/ Consensus(Receiver) /\ UNCHANGED auxVars
  \/ RsvLoop(Receiver) /\ UNCHANGED auxVars
  \/ RsvRequest(Receiver, Receiver) /\ UNCHANGED auxVars
  \/ RsvLength(Receiver) /\ UNCHANGED auxVars
  \/ RsvFetchOk(Receiver) /\ UNCHANGED auxVars
  \/ RsvFetchFail(Receiver, Receiver) /\ UNCHANGED auxVars
  \/ RsvReturnTrue(Receiver) /\ UNCHANGED auxVars
  \/ RsvReturnFalse(Receiver) /\ UNCHANGED auxVars
  \/ \E c \in LongerChains : OfferChain(Receiver, c) /\ UNCHANGED auxVars
  \/ \E m \in net : ReceiveRespondChain(Receiver, m) /\ UNCHANGED auxVars
  \/ RespondInstall(Receiver) /\ UNCHANGED auxVars
  \/ \E m \in net : LoseMessage(m) /\ UNCHANGED auxVars

SpecBuffer == Init /\ [][BufferNext]_vars

\* C12: a chain replacement (resolve_conflicts returning True, RESPOND_CHAIN
\* adoption) leaves the pending buffer and the registry unchanged, and a step
\* that changes the pending buffer appends one transaction to it
\* (new_transaction, NEW_TRANSACTION) or empties it in the same step in
\* which new_block appends a block.
C12_BufferChanges ==
  [][\A n \in Node :
       /\ (RsvReturnTrue(n) \/ RespondInstall(n))
            => /\ current_transactions'[n] = current_transactions[n]
               /\ nodes'[n] = nodes[n]
       /\ current_transactions'[n] # current_transactions[n]
            => \/ appended_one(current_transactions[n],
                               current_transactions'[n])
               \/ /\ current_transactions'[n] = <<>>
                  /\ Len(chain'[n]) = Len(chain[n]) + 1
                  /\ SubSeq(chain'[n], 1, Len(chain[n])) = chain[n]]_vars

----------------------------------------------------------------------------
(* POST /nodes/register with addresses of every form *)

\* the forms of the address of node `a`: bare, with a scheme, with a path
forms_of(a) ==
  {bare_form(a), <<"http://">> \o bare_form(a),
   <<"https://">> \o bare_form(a), <<"http://">> \o bare_form(a) \o <<"/">>,
   bare_form(a) \o <<"/", "chain">>}

\* addresses that hold no host:port pair
Unextractable ==
  {<<>>, <<"localhost">>, <<"http://">>, <<"http://", "localhost">>,
   <<"/", "chain">>, <<"http://", "/", "chain">>, <<"localhost", "/">>}

AddressInput == UNION {forms_of(a) : a \in Node} \cup Unextractable

\* the route register_nodes with a list of one address
RegisterAddress(n, address) ==
  /\ nodes' = [nodes EXCEPT ![n] = register_node(@, address)]
  /\ call' = <<n, address>>
  /\ result' = <<IF register_raises(address) THEN "ValueError" ELSE "201",
                 nodes[n]>>
  /\ UNCHANGED <<chain, current_transactions, mineVars, rsvVars, rcVars, sendVars, net,
                 recorded, candidate, verdict>>

RegistryNext == \E n \in Node, address \in AddressInput : RegisterAddress(n, address)

\* every node has passed line 496
InitRegistry ==
  /\ InitNode([n \in Node |-> {n}])
  /\ recorded = [n \in Node |-> <<>>]
  /\ call = <<>>
  /\ result = <<>>
  /\ candidate = <<>>
  /\ verdict = "none"

SpecRegistry == InitRegistry /\ [][RegistryNext]_vars

\* C13: registering the bare form host:port or a scheme-qualified form of it,
\* in any order and any number of times, leaves exactly the entry host:port
\* for that peer, and registering a peer that is present changes nothing.
C13_RegisterIdempotent ==
  [][\A n, a \in Node : \A address \in forms_of(a) :
       RegisterAddress(n, address) => nodes'[n] = nodes[n] \cup {a}]_vars

\* node 5000 holds the one entry of node 5001 right after a call with a
\* scheme-qualified form that found the entry already there
C13_Witness ==
  /\ call = <<"127.0.0.1:5000", <<"http://", "127.0.0.1", ":", "5001">>>>
  /\ result = <<"201", {"127.0.0.1:5000", "127.0.0.1:5001"}>>
  /\ nodes["127.0.0.1:5000"] = {"127.0.0.1:5000", "127.0.0.1:5001"}

\* C14: register_node raises and leaves the registry unchanged for every
\* address that holds no host:port pair, so every entry of a registry is
\* the host:port of a node.
C14_RejectsUnextractable ==
  /\ \A n \in Node : nodes[n] \subseteq Node
  /\ (call # <<>> /\ call[2] \in Unextractable)
       => (result[1] = "ValueError" /\ nodes[call[1]] = result[2])

----------------------------------------------------------------------------
(* The block of GET /mine *)

\* how many entries of the transaction list txs are the transaction tx
occurrences(txs, tx) == Cardinality({i \in 1..Len(txs) : txs[i] = tx})

\* C15: the block GET /mine appends carries the pending transactions followed
\* by exactly one reward transaction (sender "0", recipient the node's
\* identifier, amount 1) as its last entry, its index is the chain length
\* before the append plus 1, and NEW_BLOCK is sent after the append, not
\* with it.
C15_MinedBlockShape ==
  [][\A n \in Node : \A t \in MineThread :
       MineAppend(n, t) =>
         LET block == chain'[n][Len(chain'[n])]
         IN  /\ block.transactions # <<>>
             /\ block.transactions[Len(block.transactions)] = reward(n)
             /\ occurrences(block.transactions, reward(n)) = 1
             /\ block.index = Len(chain[n]) + 1
             /\ net' = net]_vars

----------------------------------------------------------------------------
(* The index new_transaction returns *)

\* C16: recording a transaction appends exactly one transaction to the end
\* of the pending buffer, leaves the chain unchanged and returns the chain
\* length plus 1: the last block's index is the chain length in every
\* reachable state, also after a chain was adopted from a peer.
C16_RecordReturnsNextIndex ==
  [][\A n \in Node : \A tx \in UserTx :
       RecordTransaction(n, tx) =>
         /\ appended_one(current_transactions[n], current_transactions'[n])
         /\ current_transactions'[n][Len(current_transactions'[n])] = tx
         /\ chain'[n] = chain[n]
         /\ new_transaction_index(chain[n]) = Len(chain[n]) + 1]_vars

----------------------------------------------------------------------------
(* broadcast_message called alone on registries of every kind *)

\* addresses register_node accepts: nodes on this host and on another host,
\* an entry without a port and one whose port is no number
PeerAddress ==
  {<<"127.0.0.1", ":", "5000">>, <<"127.0.0.1", ":", "5001">>,
   <<"10.0.0.2", ":", "5000">>, <<"10.0.0.2", ":", "5001">>,
   <<"10.0.0.2", ":", "abc">>, <<"localhost">>}

\* the registry after register_node on each address of a set
RECURSIVE registry_of(_)
registry_of(addresses) ==
  IF addresses = {}
    THEN {}
    ELSE LET address == CHOOSE x \in addresses : TRUE
         IN  register_node(registry_of(addresses \ {address}), address)

\* the entries a registry of these addresses can hold
PeerEntry == {text(netloc(with_scheme(address))) : address \in PeerAddress}

\* every node has passed line 496 and was given one list of peers to register
InitBroadcast ==
  /\ \E registered \in SUBSET PeerAddress :
       InitNode([n \in Node |-> registry_of(registered \cup {bare_form(n)})])
  /\ recorded = [n \in Node |-> <<>>]
  /\ candidate = <<>>
  /\ verdict = "none"
  /\ call = <<>>
  /\ result = <<>>

\* POST /transactions/new, once in the run: the route up to its call of
\* broadcast_message
PostTransaction(n, tx) ==
  /\ \A k \in Node : recorded[k] = <<>>
  /\ RecordTransaction(n, tx)
  /\ Logged(n, tx)

\* The call broadcast_message(message, exclude_port=self.port) of node n is
\* followed in tx_pc[n]: <<payload>> before the call, <<payload, entries of
\* the list not yet visited, entries send_message was called for>> in it.
\* line 451: list(self.blockchain.nodes)
BroadcastBegin(n) ==
  /\ Len(tx_pc[n]) = 1
  /\ tx_pc' = [tx_pc EXCEPT ![n] = <<tx_pc[n][1], nodes[n], {}>>]
  /\ UNCHANGED <<ledgerVars, mineVars, rsvVars, rcVars, rq, net>>

\* the entries of the list the for statement has not yet visited
unvisited(n) == IF Len(tx_pc[n]) = 3 THEN tx_pc[n][2] ELSE {}

\* the for statement goes on to the next entry; send_message was called for
\* the entries `called`
visited(n, a, called) ==
  tx_pc' = [tx_pc EXCEPT ![n] = <<tx_pc[n][1], tx_pc[n][2] \ {a},
                                  tx_pc[n][3] \cup called>>]

\* lines 454-456 raise ValueError, which line 463 catches
BroadcastInvalid(n, a) ==
  /\ a \in unvisited(n)
  /\ ~parses(a)
  /\ visited(n, a, {})
  /\ UNCHANGED <<ledgerVars, mineVars, rsvVars, rcVars, rq, net>>

\* lines 459-460: if p2p_port == exclude_port: continue
BroadcastExcluded(n, a) ==
  /\ a \in unvisited(n)
  /\ parses(a)
  /\ http_port(a) + 1000 = p2p_port(n)
  /\ visited(n, a, {})
  /\ UNCHANGED <<ledgerVars, mineVars, rsvVars, rcVars, rq, net>>

\* line 462, send_message lines 437-440: the connection is made and the
\* message is on its way to the endpoint of a
BroadcastSent(n, a) ==
  /\ a \in unvisited(n)
  /\ parses(a)
  /\ http_port(a) + 1000 # p2p_port(n)
  /\ Cardinality(net) < MaxInFlight
  /\ net' = net \cup {[to |-> a, type |-> "NEW_TRANSACTION",
                         payload |-> tx_pc[n][1]]}
  /\ visited(n, a, {a})
  /\ UNCHANGED <<ledgerVars, mineVars, rsvVars, rcVars, rq>>

\* line 462, send_message lines 441-444: the peer is unreachable, the
\* exception is caught inside send_message and the loop goes on
BroadcastRefused(n, a) ==
  /\ a \in unvisited(n)
  /\ parses(a)
  /\ http_port(a) + 1000 # p2p_port(n)
  /\ visited(n, a, {a})
  /\ UNCHANGED <<ledgerVars, mineVars, rsvVars, rcVars, rq, net>>

\* the list is exhausted and broadcast_message returns
BroadcastEnd(n) ==
  /\ Len(tx_pc[n]) = 3
  /\ tx_pc[n][2] = {}
  /\ tx_pc' = [tx_pc EXCEPT ![n] = <<>>]
  /\ UNCHANGED <<ledgerVars, mineVars, rsvVars, rcVars, rq, net>>

\* the copies of a transaction a pending list is followed up to
MaxCopies == 4

\* a message sent to a peer that is no node of the model reaches that peer
TakenOutside(m) ==
  /\ m \in net
  /\ m.to \notin Node
  /\ net' = net \ {m}
  /\ UNCHANGED <<ledgerVars, mineVars, rsvVars, rcVars, sendVars>>

\* nodes with registries of every kind; a client posts one transaction, the
\* route broadcasts it, and a node that receives it appends it and
\* broadcasts it again (lines 401-406)
BroadcastNext ==
  \/ \E n \in Node, tx \in UserTx : PostTransaction(n, tx)
  \/ \E n \in Node : BroadcastBegin(n) /\ UNCHANGED auxVars
  \/ \E n \in Node, a \in PeerEntry : BroadcastInvalid(n, a) /\ UNCHANGED auxVars
  \/ \E n \in Node, a \in PeerEntry : BroadcastExcluded(n, a) /\ UNCHANGED auxVars
  \/ \E n \in Node, a \in PeerEntry : BroadcastSent(n, a) /\ UNCHANGED auxVars
  \/ \E n \in Node, a \in PeerEntry : BroadcastRefused(n, a) /\ UNCHANGED auxVars
  \/ \E n \in Node : BroadcastEnd(n) /\ UNCHANGED auxVars
  \/ \E n \in Node, m \in net :
       new_transaction_handler(n, m, MaxCopies) /\ UNCHANGED auxVars
  \/ \E m \in net : TakenOutside(m) /\ UNCHANGED auxVars

SpecBroadcast == InitBroadcast /\ [][BroadcastNext]_vars

\* the P2P endpoint derived from a registry entry: same host, port + 1000
endpoint(entry) == <<split_colon(entry)[1], http_port(entry) + 1000>>

\* C17: a call of broadcast_message with the node's own port excluded calls
\* send_message for the derived endpoint of every registered peer except
\* the one excluded endpoint (the node's own host with the excluded port):
\* a peer on another host whose derived port is the excluded port is not
\* skipped, and neither an entry that cannot be parsed nor a peer that is
\* unreachable keeps the message from the other peers.
C17_BroadcastReachesAllButOne ==
  [][\A n \in Node :
       BroadcastEnd(n) =>
         tx_pc[n][3] = {a \in nodes[n] :
                          /\ parses(a)
                          /\ endpoint(a) # <<split_colon(n)[1], p2p_port(n)>>}]_vars

----------------------------------------------------------------------------
(* One transaction submitted to a network of mutually registered nodes *)

\* the transactions a client submits
SubmittedTx ==
  {[sender |-> "x", recipient |-> "y", amount |-> k] : k \in {5, 6, 7}}

\* the NEW_TRANSACTION messages handed to send_message so far
counted(sent) ==
  LET so_far == IF result = <<>> THEN 0 ELSE result[1]
  IN  <<so_far + sent>>

\* POST /transactions/new, once, after every node has registered every node:
\* the route up to its call of broadcast_message
Submit(n, tx) ==
  /\ \A k \in Node : nodes[k] = Node /\ recorded[k] = <<>>
  /\ RecordTransaction(n, tx)
  /\ recorded' = [recorded EXCEPT ![n] = Append(@, tx)]
  /\ UNCHANGED <<candidate, verdict, call, result>>

\* the NEW_TRANSACTION handler up to its call of broadcast_message
FloodReceive(n, m) ==
  /\ new_transaction_handler(n, m, MaxCopies)
  /\ UNCHANGED auxVars

\* the broadcast of the route (line 296) or of the handler (line 406): one
\* send_message for every peer that broadcast_message does not pass over
FloodSend(n) ==
  /\ BroadcastTransaction(n)
  /\ result' =
       counted(Cardinality(broadcast_targets(n, p2p_port(n))))
  /\ UNCHANGED <<recorded, candidate, verdict, call>>

FloodNext ==
  \/ \E n \in Node : StartFlask(n) /\ UNCHANGED auxVars
  \/ \E n \in Node, a \in Node : RegisterNode(n, a) /\ UNCHANGED auxVars
  \/ \E n \in Node, tx \in SubmittedTx : Submit(n, tx)
  \/ \E n \in Node : FloodSend(n)
  \/ \E n \in Node, m \in net : FloodReceive(n, m)
  \/ \E m \in net : LoseMessage(m) /\ UNCHANGED auxVars

SpecFlood == Init /\ [][FloodNext]_vars

\* C18: the flood is single-hop and ends.  After a transaction is submitted
\* once at a node of a network of mutually registered nodes, only the
\* submitter's peers are sent a NEW_TRANSACTION message, one each, and no
\* pending buffer ever holds more than one copy of the transaction.
C18_FloodTerminates ==
  /\ \A n \in Node : Len(current_transactions[n]) <= 1
  /\ result # <<>> => result[1] <= Cardinality(Node) - 1

----------------------------------------------------------------------------
(* Peers that fail during resolve_conflicts *)

\* C19: a peer that is unreachable, answers with a non-success status or
\* returns a malformed body is skipped without aborting the scan.  The step
\* that meets it leaves the call scanning, with the other neighbours still to
\* visit and with max_length, new_chain, the responses fetched and the local
\* chain as they were; a call ends only after it has visited every
\* neighbour; and the chain a call installs is one that a peer that answered
\* has served.
C19_FailedPeerSkipped ==
  [][\A n \in Node :
       /\ \A a \in Node :
            RsvFetchFail(n, a) =>
              /\ rsv_pc'[n] = "scan"
              /\ rsv_todo'[n] = rsv_todo[n] \ {a}
              /\ rsv_max_length'[n] = rsv_max_length[n]
              /\ rsv_new_chain'[n] = rsv_new_chain[n]
              /\ rsv_offered'[n] = rsv_offered[n]
              /\ chain'[n] = chain[n]
       /\ (rsv_pc[n] = "scan" /\ rsv_pc'[n] = "idle" /\ nodes'[n] = nodes[n])
            => rsv_todo[n] = {}
       /\ RsvReturnTrue(n) =>
            \E r \in rsv_offered[n] :
              chain'[n] = r.chain /\ r.length > Len(rsv_local[n])
       /\ RsvReturnFalse(n) =>
            /\ \A r \in valid_offers(n) : r.length <= Len(rsv_local[n])
            /\ chain'[n] = chain[n]]_vars

\* a call of a node that has registered both nodes has visited both: one
\* failed, the other served a longer valid chain, which the call is about to
\* install
C19_Witness ==
  \E n \in Node :
    /\ nodes[n] = Node
    /\ rsv_pc[n] = "scan" /\ rsv_todo[n] = {}
    /\ Cardinality(rsv_offered[n]) = 1
    /\ Len(chain[n]) = 1 /\ rsv_local[n] = chain[n]
    /\ \E r \in rsv_offered[n] : rsv_new_chain[n] = r.chain /\ r.length = 2

----------------------------------------------------------------------------
(* The NEW_BLOCK handler *)

\* the network in which resolve_conflicts runs only for a NEW_BLOCK message:
\* the nodes mine, nobody requests GET /nodes/resolve, nobody posts a
\* transaction, and whoever connects to a P2P port sends RESPOND_CHAIN with
\* a chain longer than those the nodes mine
NewBlockNext ==
  \/ \E n \in Node : MineStart(n, 1) /\ UNCHANGED auxVars
  \/ \E n \in Node : MineReward(n, 1) /\ UNCHANGED auxVars
  \/ \E n \in Node : MineIndex(n, 1) /\ UNCHANGED auxVars
  \/ \E n \in Node : MineTimestamp(n, 1) /\ UNCHANGED auxVars
  \/ \E n \in Node : MineTransactions(n, 1) /\ UNCHANGED auxVars
  \/ \E n \in Node : MineReset(n, 1) /\ UNCHANGED auxVars
  \/ \E n \in Node : MineAppend(n, 1) /\ UNCHANGED auxVars
  \/ \E n \in Node : MineBroadcast(n, 1) /\ UNCHANGED auxVars
  \/ \E n \in Node, m \in net : ReceiveNewBlock(n, m) /\ UNCHANGED auxVars
  \/ \E n \in Node : RsvLoop(n) /\ UNCHANGED auxVars
  \/ \E n \in Node, a \in Node : RsvRequest(n, a) /\ UNCHANGED auxVars
  \/ \E n \in Node : RsvLength(n) /\ UNCHANGED auxVars
  \/ \E n \in Node : RsvFetchOk(n) /\ UNCHANGED auxVars
  \/ \E n \in Node, a \in Node : RsvFetchFail(n, a) /\ UNCHANGED auxVars
  \/ \E n \in Node : RsvReturnTrue(n) /\ UNCHANGED auxVars
  \/ \E n \in Node : RsvReturnFalse(n) /\ UNCHANGED auxVars
  \/ \E n \in Node, c \in LongerChains : OfferChain(n, c) /\ UNCHANGED auxVars
  \/ \E n \in Node, m \in net : ReceiveRespondChain(n, m) /\ UNCHANGED auxVars
  \/ \E n \in Node : RespondInstall(n) /\ UNCHANGED auxVars
  \/ \E m \in net : LoseMessage(m) /\ UNCHANGED auxVars

\* every node has registered every node
SpecNewBlock == InitConverge /\ [][NewBlockNext]_vars

\* C20: handling a NEW_BLOCK message never appends the received block.  No
\* step of the handler but the last changes the receiver's chain, no step of
\* it changes the pending buffer, and the last step leaves the receiver with
\* the chain it had when the handling began or with a chain that a
\* registered peer served, that passes valid_chain and that is strictly
\* longer than the chain the receiver had when the handling began.
C20_NewBlockNotAppended ==
  [][\A n \in Node :
       /\ ( \/ \E m \in net : ReceiveNewBlock(n, m)
            \/ RsvLoop(n) \/ RsvLength(n) \/ RsvFetchOk(n)
            \/ \E a \in Node : RsvRequest(n, a) \/ RsvFetchFail(n, a)
            \/ RsvReturnFalse(n) )
            => /\ chain'[n] = chain[n]
               /\ current_transactions'[n] = current_transactions[n]
       /\ RsvReturnTrue(n) =>
            /\ \/ chain'[n] = rsv_local[n]
               \/ /\ \E r \in rsv_offered[n] :
                       /\ chain'[n] = r.chain
                       /\ valid_chain(chain[n], r.chain)
                  /\ Len(chain'[n]) > Len(rsv_local[n])
            /\ current_transactions'[n] = current_transactions[n]]_vars

----------------------------------------------------------------------------
(* The RESPOND_CHAIN handler *)

\* the chains a RESPOND_CHAIN message can carry: whoever connects to the P2P
\* port chooses the payload, so the reward-only chains of a miner, and those
\* chains with one field changed
ReceivedChains ==
  {c \in UNION {MinedChains(k) : k \in 1..MaxCandidateLen} : reward_only(c)}
    \cup {cand.chain : cand \in {d \in Candidates : reward_only(d.original)}}

\* history: the handlers that passed the test of line 425 and have not yet
\* assigned, each with the local chain the test read and the received chain
tested(n, local, received_chain) ==
  Append(SelectSeq(call, LAMBDA e : e[1] # n), <<n, local, received_chain>>)

RespondTest(n, m) ==
  /\ ReceiveRespondChain(n, m)
  /\ call' = IF rc_pc'[n] = "install"
               THEN tested(n, chain[n], m.payload.chain)
               ELSE call
  /\ UNCHANGED <<recorded, candidate, verdict, result>>

RespondAssign(n) ==
  /\ RespondInstall(n)
  /\ call' = SelectSeq(call, LAMBDA e : e[1] # n)
  /\ UNCHANGED <<recorded, candidate, verdict, result>>

\* in this network no node has registered another, so no message passes
\* between nodes and each node runs by itself, and Receiver is followed

RespondNext ==
  \/ StartFlask(Receiver) /\ UNCHANGED auxVars
  \/ MineStart(Receiver, 1) /\ UNCHANGED auxVars
  \/ MineReward(Receiver, 1) /\ UNCHANGED auxVars
  \/ MineIndex(Receiver, 1) /\ UNCHANGED auxVars
  \/ MineTimestamp(Receiver, 1) /\ UNCHANGED auxVars
  \/ MineTransactions(Receiver, 1) /\ UNCHANGED auxVars
  \/ MineReset(Receiver, 1) /\ UNCHANGED auxVars
  \/ MineAppend(Receiver, 1) /\ UNCHANGED auxVars
  \/ MineBroadcast(Receiver, 1) /\ UNCHANGED auxVars
  \/ \E c \in ReceivedChains : OfferChain(Receiver, c) /\ UNCHANGED auxVars
  \/ \E m \in net : RespondTest(Receiver, m)
  \/ RespondAssign(Receiver)
  \/ \E m \in net : LoseMessage(m) /\ UNCHANGED auxVars

SpecRespond == Init /\ [][RespondNext]_vars

\* C21: handling a RESPOND_CHAIN message replaces the local chain with the
\* received chain if and only if the received chain is strictly longer than
\* the local chain and passes valid_chain.  The test leaves the chain as it
\* is and passes exactly the chains that are longer than the local chain and
\* valid; a handler whose test failed assigns nothing; a handler whose test
\* passed assigns the whole received chain, which is valid and longer than
\* the local chain the test read.
C21_RespondChainReplaces ==
  [][\A n \in Node :
       /\ \A m \in net :
            ReceiveRespondChain(n, m) =>
              /\ chain'[n] = chain[n]
              /\ rc_pc'[n] = "install"
                   <=> /\ Len(m.payload.chain) > Len(chain[n])
                       /\ valid_chain(chain[n], m.payload.chain)
              /\ rc_pc'[n] = "install" => rc_chain'[n] = m.payload.chain
       /\ RespondInstall(n) =>
            \E i \in 1..Len(call) :
              /\ call[i][1] = n
              /\ chain'[n] = call[i][3]
              /\ Len(call[i][3]) > Len(call[i][2])
              /\ valid_chain(call[i][2], call[i][3])]_vars

\* a node that has mined a block has received a valid chain of three blocks
\* whose second block is not its own, has tested it, and is about to assign
C21_Witness ==
  \E n \in Node :
    /\ rc_pc[n] = "install"
    /\ Len(chain[n]) = 2 /\ Len(rc_chain[n]) = 3
    /\ rc_chain[n][2] # chain[n][2]
    /\ \E i \in 1..Len(call) :
         call[i] = <<n, chain[n], rc_chain[n]>>

============================================================================
